---- MODULE Spec2Model ----
(***************************************************************************)
(* Model of the rag-project repository: the streaming question-answering   *)
(* workflow (app/graph/rag_graph.py, app/retrieval/retriever.py) and the   *)
(* PDF ingestion batch (app/ingest/extract_text.py).                       *)
(*                                                                         *)
(* Three specifications share the variables:                               *)
(*   Spec         one caller driving run_streaming_rag, request by request *)
(*   SpecExtract  process_pdf_file applied to every bounded LLM response   *)
(*   SpecIngest   main(): collection setup and the loop over the PDF files *)
(***************************************************************************)
EXTENDS Integers, Sequences, FiniteSets, TLC

\* ------------------------------------------------------------------ bounds
MaxTokens == 3
MaxDocs == 6
MaxRequests == 1
MaxChunks == 4
MaxFiles == 2
MaxSetupCalls == 2

\* ------------------------------------------------------- program constants
\* build_streaming_graph(collection_name="sumulas_jornada", k=5)
DefaultK == 5
\* retrieve(state, config, collection_name="sumulas_jornada", k=10)
RetrieveDefaultK == 10
\* "if not texto or idx >= 3: continue"
ChunkCap == 3

VARIABLES
    \* --- run_streaming_rag (one caller, one request at a time)
    pc,            \* position of the run_streaming_rag generator
    node,          \* next node the compiled graph will run
    state,         \* the RAGState threaded by the graph (a dict)
    final_state,   \* run_streaming_rag's local final_state (a dict)
    out,           \* the events yielded to the caller so far
    produced,      \* the tokens the model call has produced so far
    searched,      \* the structured query the vector search was run with
    emitsEnd,      \* whether this build's graph.stream yields an END-keyed event
    requests,      \* number of requests started
    handles,       \* number of EmbeddingSelfQuery() constructions
    retrieveRuns,  \* executions of the retrieve node in the current request
    generateRuns,  \* executions of the generate node in the current request
    stream,        \* the answer generator: "unset", "open", "exhausted", "failed"
    pulls,         \* next() calls the caller has made on run_streaming_rag
    search_k,      \* the k of the search_kwargs the retriever was built with
    \* --- process_pdf_file as a function of the LLM response
    xin, xout,
    \* --- main() of extract_text.py
    ipc,           \* position of main: "idle", "loop", "done", "aborted"
    pdf_files,     \* the files globbed from the folder
    idx,           \* number of files the loop has taken so far
    store,         \* the points written to the vector store, in order
    collection,    \* the collection as the Qdrant server holds it
    handled,       \* per file taken by the loop: what happened to it
    total_chunks,  \* main's counter
    setupLog       \* one entry per create_collection_if_not_exists call

qvars == <<pc, node, state, final_state, out, produced, searched, emitsEnd,
           requests, handles, retrieveRuns, generateRuns, stream, pulls,
           search_k>>
xvars == <<xin, xout>>
ivars == <<ipc, pdf_files, idx, store, collection, handled, total_chunks,
           setupLog>>
vars == <<qvars, xvars, ivars>>

\* Python's None for string-valued fields.
None == "<None>"
\* The empty dict.
EmptyDict == <<>>
\* dict.get(key, default)
DictGet(d, key, default) == IF key \in DOMAIN d THEN d[key] ELSE default
\* The state update LangGraph applies: keys of the node's output replace the state's.
Merge(old, update) == update @@ old

\* ====================================================================
\* The vector store as the query path sees it
\* ====================================================================
ChunkTypes == <<"conteudo_principal", "referencias_normativas", "precedentes">>

\* The i-th chunk stored in the collection (a langchain Document).
StoredDoc(i) ==
    [page_content |-> <<"texto", i>>,
     metadata |-> [num_sumula |-> i,
                   data_status |-> "01/01/10",
                   data_status_ano |-> 2000 + i,
                   status_atual |-> IF i % 2 = 1 THEN "VIGENTE" ELSE "REVOGADA",
                   pdf_name |-> <<"sumula", (i + 2) \div 3>>,
                   chunk_type |-> ChunkTypes[((i - 1) % 3) + 1],
                   chunk_index |-> (i - 1) % 3]]

\* What the query constructor (an LLM call) can answer for a question.
SemanticTexts == {"jornada", "horas extras"}
NoFilter == [attribute |-> "", comparator |-> "", value |-> ""]
Filters == {NoFilter,
            [attribute |-> "status_atual", comparator |-> "eq", value |-> "VIGENTE"],
            [attribute |-> "status_atual", comparator |-> "eq", value |-> "ALTERADA"]}
\* StructuredQuery.limit: <<>> is None, <<n>> is the limit n.
Limits == {<<>>, <<1>>}
StructuredQueries == [query : SemanticTexts, filter : Filters, limit : Limits]
NoQuery == [query |-> "", filter |-> NoFilter, limit |-> <<>>]

Reverse(s) == [i \in 1..Len(s) |-> s[Len(s) + 1 - i]]
Take(s, n) == SubSeq(s, 1, IF n < Len(s) THEN n ELSE Len(s))

\* Similarity ranking of the n stored chunks for a semantic text.
Ranking(text, n) ==
    LET asc == [i \in 1..n |-> StoredDoc(i)]
    IN IF text = "jornada" THEN asc ELSE Reverse(asc)

FilterMatches(f, d) ==
    \/ f = NoFilter
    \/ /\ f.comparator = "eq"
       /\ f.attribute \in DOMAIN d.metadata
       /\ d.metadata[f.attribute] = f.value

\* SelfQueryRetriever.invoke once the structured query is known: the filter
\* restricts the search, enable_limit lets the query's limit replace k.
VectorSearch(sq, k, n) ==
    LET Keep(d) == FilterMatches(sq.filter, d)
        kk == IF sq.limit # <<>> THEN sq.limit[1] ELSE k
    IN Take(SelectSeq(Ranking(sq.query, n), Keep), kk)

\* ====================================================================
\* rag_graph.py
\* ====================================================================
\* _format_filter_for_display: no filter gives the fixed message, anything
\* else a rendering of the filter's text.
FormatFilterForDisplay(f) ==
    IF f = NoFilter THEN <<"Nenhum filtro aplicado.">>
    ELSE <<f.attribute, f.comparator, f.value>>

\* retrieve(state, config, collection_name, k): sq1 is the answer of the
\* explicit query_constructor.invoke, sq2 the answer of the one inside
\* retriever.invoke; n is the number of chunks the collection holds.
retrieve(st, k, sq1, sq2, n) ==
    [docs |-> VectorSearch(sq2, k, n),
     generated_query |-> sq1.query,
     generated_filter |-> FormatFilterForDisplay(sq1.filter)]

\* generate_stream that also returns an emptied docs list.
generate_stream_clearing(st) == [answer |-> "answer_stream", docs |-> <<>>]
\* generate_stream(state, config): the answer is a lazy generator; nothing is
\* asked of the model until the first token is pulled.
generate_stream(st) == [answer |-> "answer_stream"]

END == "__end__"
EntryPoint == "retrieve"
\* NextNode with a conditional edge that skips generate when nothing was retrieved.
NextNodeSkipEmpty(n, st) ==
    CASE n = "retrieve" -> IF DictGet(st, "docs", <<>>) = <<>> THEN END ELSE "generate"
      [] n = "generate" -> END
      [] OTHER -> END
\* NextNode with an edge from generate back to retrieve.
NextNodeLoop(n, st) ==
    CASE n = "retrieve" -> "generate"
      [] n = "generate" -> "retrieve"
      [] OTHER -> END
\* The edges of build_streaming_graph: the node run after node n in state st.
NextNode(n, st) ==
    CASE n = "retrieve" -> "generate"
      [] n = "generate" -> END
      [] OTHER -> END

\* The events run_streaming_rag yields.
DetailsEvent(output) ==
    [type |-> "details",
     data |-> [query |-> output.generated_query, filter |-> output.generated_filter]]
TokenEvent(token) == [type |-> "token", data |-> token]
SourceEntry(d) ==
    [pdf_name |-> DictGet(d.metadata, "pdf_name", None),
     data_status |-> DictGet(d.metadata, "data_status", None),
     data_status_ano |-> DictGet(d.metadata, "data_status_ano", None),
     status_atual |-> DictGet(d.metadata, "status_atual", None),
     num_sumula |-> DictGet(d.metadata, "num_sumula", None),
     chunk_type |-> DictGet(d.metadata, "chunk_type", None)]
\* The list comprehension over final_state.get("docs", []).
Sources(fs) ==
    LET docs == DictGet(fs, "docs", <<>>)
    IN [i \in 1..Len(docs) |-> SourceEntry(docs[i])]
SourcesEvent(fs) == [type |-> "sources", data |-> Sources(fs)]

Questions == {"Q1", "Q2"}
Tokens == {"a", "b"}

QInit ==
    /\ pc = "idle"
    /\ node = EntryPoint
    /\ state = EmptyDict
    /\ final_state = EmptyDict
    /\ out = <<>>
    /\ produced = <<>>
    /\ searched = NoQuery
    /\ emitsEnd \in BOOLEAN
    /\ requests = 0
    /\ handles = 0
    /\ retrieveRuns = 0
    /\ generateRuns = 0
    /\ stream = "unset"
    /\ pulls = 0
    /\ search_k = 0

\* run_streaming_rag(question) is called: initial_state and final_state are
\* set and the graph's stream is created.
StartRequest(q) ==
    /\ pc \in {"idle", "done", "failed"}
    /\ requests < MaxRequests
    /\ requests' = requests + 1
    /\ pc' = "started"
    /\ node' = EntryPoint
    /\ state' = [question |-> q, messages |-> <<>>]
    /\ final_state' = EmptyDict
    /\ out' = <<>>
    /\ produced' = <<>>
    /\ searched' = NoQuery
    /\ retrieveRuns' = 0
    /\ generateRuns' = 0
    /\ stream' = "unset"
    /\ pulls' = 0
    /\ search_k' = 0
    /\ UNCHANGED <<emitsEnd, handles>>

\* The graph's stream is over: an END-keyed event, where the build yields
\* one, sets final_state; then the sources are formatted and yielded.
Finish ==
    /\ final_state' = IF emitsEnd THEN state ELSE final_state
    /\ out' = Append(out, SourcesEvent(final_state'))
    /\ pc' = "done"

\* First pull: the graph runs the retrieve node and the loop body yields
\* the details event.
RetrieveNode ==
    /\ pc = "started"
    /\ node = "retrieve"
    /\ \E sq1 \in StructuredQueries, sq2 \in StructuredQueries :
          LET output == retrieve(state, DefaultK, sq1, sq2, MaxDocs)
          IN /\ state' = Merge(state, output)
             /\ out' = Append(out, DetailsEvent(output))
             /\ searched' = sq2
             /\ node' = NextNode(node, state')
    /\ pc' = "details"
    /\ retrieveRuns' = retrieveRuns + 1
    /\ handles' = handles + 1
    /\ pulls' = pulls + 1
    /\ search_k' = DefaultK
    /\ UNCHANGED <<final_state, produced, emitsEnd, requests,
                   generateRuns, stream>>

\* The retrieve node raises (the translator or the vector store fails): the
\* exception leaves run_streaming_rag.
RetrieveFail ==
    /\ pc = "started"
    /\ node = "retrieve"
    /\ pc' = "failed"
    /\ retrieveRuns' = retrieveRuns + 1
    /\ handles' = handles + 1
    /\ pulls' = pulls + 1
    /\ search_k' = DefaultK
    /\ UNCHANGED <<node, state, final_state, out, produced, searched, emitsEnd,
                   requests, generateRuns, stream>>

\* Next pull after the details event: the graph runs the node the edge leads
\* to; the loop body takes the answer generator of the generate event.
GenerateNode ==
    /\ pc = "details"
    /\ IF node = "generate"
       THEN /\ state' = Merge(state, generate_stream(state))
            /\ node' = NextNode(node, state')
            /\ pc' = "tokens"
            /\ stream' = "open"
            /\ generateRuns' = generateRuns + 1
            /\ handles' = handles + 1
            /\ UNCHANGED <<final_state, out>>
       ELSE /\ Finish
            /\ UNCHANGED <<node, state, stream, generateRuns, handles>>
    /\ pulls' = pulls + 1
    /\ UNCHANGED <<produced, searched, emitsEnd, requests, retrieveRuns, search_k>>

\* NextToken with the new event put ahead of the tokens already yielded.
NextTokenPrepended(t) ==
    /\ pc = "tokens"
    /\ pulls' = IF produced = <<>> THEN pulls ELSE pulls + 1
    /\ UNCHANGED search_k
    /\ Len(produced) < MaxTokens
    /\ produced' = Append(produced, t)
    /\ out' = <<Head(out), TokenEvent(t)>> \o Tail(out)
    /\ UNCHANGED <<pc, node, state, final_state, searched, emitsEnd, requests,
                   handles, retrieveRuns, generateRuns, stream>>

\* NextToken with the token kept in a buffer instead of being yielded: the
\* loop goes on to ask the model for the next one.
NextTokenBuffered(t) ==
    /\ pc = "tokens"
    /\ Len(produced) < MaxTokens
    /\ produced' = Append(produced, t)
    /\ UNCHANGED <<pc, node, state, final_state, out, searched, emitsEnd, requests,
                   handles, retrieveRuns, generateRuns, stream, pulls, search_k>>

\* "for token in answer_stream": the model produces the next token and it is
\* yielded as a token event. The first token is asked for in the pull that ran
\* the generate node, every later one in a pull of its own.
NextToken(t) ==
    /\ pc = "tokens"
    /\ pulls' = IF produced = <<>> THEN pulls ELSE pulls + 1
    /\ UNCHANGED search_k
    /\ Len(produced) < MaxTokens
    /\ produced' = Append(produced, t)
    /\ out' = Append(out, TokenEvent(t))
    /\ UNCHANGED <<pc, node, state, final_state, searched, emitsEnd, requests, handles, retrieveRuns, generateRuns, stream>>

\* The answer generator is exhausted: the loop over the graph's stream ends
\* and the sources event is yielded.
StreamEnd ==
    /\ pc = "tokens"
    /\ pulls' = IF produced = <<>> THEN pulls ELSE pulls + 1
    /\ UNCHANGED search_k
    /\ stream' = "exhausted"
    /\ Finish
    /\ UNCHANGED <<node, state, produced, searched, emitsEnd, requests,
                   handles, retrieveRuns, generateRuns>>

\* StreamFail with the exception swallowed: the loop ends and the sources go out.
StreamFailSwallowed ==
    /\ pc = "tokens"
    /\ pulls' = IF produced = <<>> THEN pulls ELSE pulls + 1
    /\ UNCHANGED search_k
    /\ stream' = "failed"
    /\ Finish
    /\ UNCHANGED <<node, state, produced, searched, emitsEnd, requests,
                   handles, retrieveRuns, generateRuns>>

\* The model call raises while the answer is iterated: nothing catches it.
StreamFail ==
    /\ pc = "tokens"
    /\ pulls' = IF produced = <<>> THEN pulls ELSE pulls + 1
    /\ UNCHANGED search_k
    /\ stream' = "failed"
    /\ pc' = "failed"
    /\ UNCHANGED <<node, state, final_state, out, produced, searched, emitsEnd,
                   requests, handles, retrieveRuns, generateRuns>>


\* ====================================================================
\* extract_text.py: process_pdf_file
\* ====================================================================
\* Text is a sequence of characters; " " is whitespace.
RECURSIVE LStrip(_)
LStrip(s) == IF s # <<>> /\ Head(s) = " " THEN LStrip(Tail(s)) ELSE s
\* str.strip()
Strip(s) == Reverse(LStrip(Reverse(LStrip(s))))

Digits == <<"0", "1", "2", "3", "4", "5", "6", "7", "8", "9">>
IsDigit(c) == \E d \in 1..Len(Digits) : Digits[d] = c
DigitValue(c) == (CHOOSE d \in 1..Len(Digits) : Digits[d] = c) - 1
RECURSIVE DecimalValue(_)
DecimalValue(s) ==
    IF s = <<>> THEN 0
    ELSE 10 * DecimalValue(SubSeq(s, 1, Len(s) - 1)) + DigitValue(s[Len(s)])
\* int(metadados.get("data_status_ano")): a missing key gives int(None), a
\* TypeError; a string that is no number a ValueError.
PyInt(d, key) ==
    IF key \notin DOMAIN d THEN [ok |-> FALSE, value |-> 0]
    ELSE LET s == Strip(d[key])
         IN IF s # <<>> /\ \A i \in 1..Len(s) : IsDigit(s[i])
            THEN [ok |-> TRUE, value |-> DecimalValue(s)]
            ELSE [ok |-> FALSE, value |-> 0]

\* json.loads of a JSON object written as a sequence of <<key, value>>
\* pairs: a repeated key keeps its first position and its last value.
LastValue(pairs, key) ==
    pairs[CHOOSE i \in 1..Len(pairs) :
            /\ pairs[i][1] = key
            /\ \A j \in (i + 1)..Len(pairs) : pairs[j][1] # key][2]
\* DictItems that keeps every pair of a repeated key.
DictItemsKeepDuplicates(pairs) == pairs
RECURSIVE DictItemsFrom(_, _)
DictItemsFrom(pairs, i) ==
    IF i > Len(pairs) THEN <<>>
    ELSE IF \E j \in 1..(i - 1) : pairs[j][1] = pairs[i][1]
         THEN DictItemsFrom(pairs, i + 1)
         ELSE <<<<pairs[i][1], LastValue(pairs, pairs[i][1])>>>>
              \o DictItemsFrom(pairs, i + 1)
DictItems(pairs) == DictItemsFrom(pairs, 1)

\* The file names of the folder and the name the model may echo.
FileName(i) == <<"sumula", i, ".pdf">>
EchoedName == <<"sumula", 0, ".pdf">>

\* BuildChunks without the "idx >= 3" test.
RECURSIVE BuildChunksNoCap(_, _, _, _, _)
BuildChunksNoCap(items, i, metadados, pdf_name, processed) ==
    IF i >= Len(items) THEN [raised |-> FALSE, processed |-> processed]
    ELSE LET tipo == items[i + 1][1]
             texto == items[i + 1][2]
             year == PyInt(metadados, "data_status_ano")
         IN IF texto = <<>>
            THEN BuildChunksNoCap(items, i + 1, metadados, pdf_name, processed)
            ELSE IF ~year.ok
            THEN [raised |-> TRUE, processed |-> processed]
            ELSE BuildChunksNoCap(items, i + 1, metadados, pdf_name,
                    Append(processed,
                        [text |-> Strip(texto),
                         metadata |->
                            [num_sumula |-> DictGet(metadados, "num_sumula", None),
                             data_status |-> DictGet(metadados, "data_status", None),
                             data_status_ano |-> year.value,
                             status_atual |-> DictGet(metadados, "status_atual", None),
                             pdf_name |-> DictGet(metadados, "pdf_name", pdf_name),
                             chunk_type |-> tipo,
                             chunk_index |-> i]]))

\* The body of "for idx, (tipo, texto) in enumerate(chunks.items())" from
\* index i on; raised is an exception thrown while a record is built.
RECURSIVE BuildChunks(_, _, _, _, _)
BuildChunks(items, i, metadados, pdf_name, processed) ==
    IF i >= Len(items) THEN [raised |-> FALSE, processed |-> processed]
    ELSE LET tipo == items[i + 1][1]
             texto == items[i + 1][2]
             year == PyInt(metadados, "data_status_ano")
         IN IF texto = <<>> \/ i >= ChunkCap
            THEN BuildChunks(items, i + 1, metadados, pdf_name, processed)
            ELSE IF ~year.ok
            THEN [raised |-> TRUE, processed |-> processed]
            ELSE BuildChunks(items, i + 1, metadados, pdf_name,
                    Append(processed,
                        [text |-> Strip(texto),
                         metadata |->
                            [num_sumula |-> DictGet(metadados, "num_sumula", None),
                             data_status |-> DictGet(metadados, "data_status", None),
                             data_status_ano |-> year.value,
                             status_atual |-> DictGet(metadados, "status_atual", None),
                             pdf_name |-> DictGet(metadados, "pdf_name", pdf_name),
                             chunk_type |-> tipo,
                             chunk_index |-> i]]))

MetaFields == {"num_sumula", "data_status", "data_status_ano", "status_atual", "pdf_name"}
\* The answer is a JSON object with "metadados", "chunks" and every metadata
\* field PROMPT_EXTRACT asks for.
IsComplete(response) ==
    /\ response.valid
    /\ {"metadados", "chunks"} \subseteq DOMAIN response.data
    /\ MetaFields \subseteq DOMAIN response.data["metadados"]

NoChunks == [isDict |-> TRUE, pairs |-> <<>>]
\* process_pdf_file(file_path, embedder): conv is the outcome of md.convert,
\* response the answer of embedder.llm.invoke. raised: an exception leaves
\* the function; logged: the except branch wrote its error line.
process_pdf_file(pdf_name, conv, response) ==
    IF conv # "ok" THEN [raised |-> TRUE, logged |-> FALSE, chunks |-> <<>>]
    ELSE IF ~response.valid THEN [raised |-> FALSE, logged |-> TRUE, chunks |-> <<>>]
    ELSE LET metadados == DictGet(response.data, "metadados", EmptyDict)
             chunks == DictGet(response.data, "chunks", NoChunks)
         IN IF ~chunks.isDict
            THEN [raised |-> FALSE, logged |-> TRUE, chunks |-> <<>>]
            ELSE LET built == BuildChunks(DictItems(chunks.pairs), 0, metadados,
                                          pdf_name, <<>>)
                 IN IF built.raised
                    THEN [raised |-> FALSE, logged |-> TRUE, chunks |-> <<>>]
                    ELSE [raised |-> FALSE, logged |-> FALSE, chunks |-> built.processed]

\* --- the answers the extraction model can give
FullMeta(year) ==
    [num_sumula |-> "71", data_status |-> "01/01/10", data_status_ano |-> year,
     status_atual |-> "VIGENTE", pdf_name |-> EchoedName]
Restrict(f, S) == [x \in S |-> f[x]]
Years == {<<"2", "0">>, <<"2", "x">>}
\* "metadados" with every field or with one of the fields in `optional` left out.
MetaDicts(optional) ==
    {FullMeta(y) : y \in Years}
    \cup {Restrict(FullMeta(y), MetaFields \ {f}) : y \in Years, f \in optional}
\* The keys the model may give its chunks: the three the prompt names and
\* further ones of its own; the i-th key written is a new one or repeats an
\* earlier one.
Tipos == <<"conteudo_principal", "referencias_normativas", "precedentes",
           "ementa", "observacoes", "anexos">>
Min(a, b) == IF a < b THEN a ELSE b
PairSeqs(n, textos) ==
    UNION {{ps \in [1..m -> {Tipos[j] : j \in 1..m} \X textos] :
              \A i \in 1..m : \E j \in 1..i : ps[i][1] = Tipos[j]} :
           m \in 0..Min(n, Len(Tipos))}
ChunkValues(n, textos) ==
    {[isDict |-> FALSE, pairs |-> <<>>]}
    \cup {[isDict |-> TRUE, pairs |-> ps] : ps \in PairSeqs(n, textos)}
\* The answers: text that is no JSON, or an object with or without each of
\* "metadados" and "chunks".
Responses(n, textos, optional) ==
    {[valid |-> FALSE, data |-> EmptyDict]}
    \cup {[valid |-> TRUE, data |-> [metadados |-> m, chunks |-> c]] :
            m \in MetaDicts(optional), c \in ChunkValues(n, textos)}
    \cup {[valid |-> TRUE, data |-> [chunks |-> c]] : c \in ChunkValues(n, textos)}
    \cup {[valid |-> TRUE, data |-> [metadados |-> m]] : m \in MetaDicts(optional)}
    \cup {[valid |-> TRUE, data |-> EmptyDict]}

NoResult == [raised |-> FALSE, logged |-> FALSE, chunks |-> <<>>]
NoResponse == [valid |-> FALSE, data |-> EmptyDict]
ExtractResponses == Responses(MaxChunks, {<<>>, <<" ", "a">>}, {})

XIdle ==
    /\ xin = [given |-> FALSE, response |-> NoResponse]
    /\ xout = [done |-> FALSE, result |-> NoResult]

XInit ==
    /\ xin \in {[given |-> TRUE, response |-> r] : r \in ExtractResponses}
    /\ xout = [done |-> FALSE, result |-> NoResult]

\* process_pdf_file is applied to the drawn response of a readable file.
ApplyProcess ==
    /\ xin.given
    /\ ~xout.done
    /\ xout' = [done |-> TRUE, result |-> process_pdf_file(FileName(1), "ok", xin.response)]
    /\ UNCHANGED xin


\* ====================================================================
\* extract_text.py: create_collection_if_not_exists and main
\* ====================================================================
\* embedder.model.model.embedding_size of the configured embedding model.
EmbeddingSizes == {384, 768}
NoCollection == [exists |-> FALSE, dense_size |-> 0, distance |-> "", sparse |-> FALSE]
\* QdrantClient.create_collection: the server refuses a name that exists.
QdrantCreate(coll, size) ==
    IF coll.exists
    THEN [error |-> TRUE, collection |-> coll]
    ELSE [error |-> FALSE,
          collection |-> [exists |-> TRUE, dense_size |-> size,
                          distance |-> "Cosine", sparse |-> TRUE]]
\* create_collection_if_not_exists without the collection_exists test.
create_collection_always(coll, size) ==
    LET r == QdrantCreate(coll, size)
    IN [error |-> r.error, created |-> TRUE, collection |-> r.collection]
\* create_collection_if_not_exists(embedder, collection)
create_collection_if_not_exists(coll, size) ==
    IF coll.exists
    THEN [error |-> FALSE, created |-> FALSE, collection |-> coll]
    ELSE LET r == QdrantCreate(coll, size)
         IN [error |-> r.error, created |-> TRUE, collection |-> r.collection]

BatchResponses ==
    Responses(1, {<<>>, <<" ">>, <<" ", "a">>},
              {"data_status_ano", "status_atual", "pdf_name"})

IInit ==
    /\ ipc = "idle"
    /\ pdf_files = <<>>
    /\ idx = 0
    /\ store = <<>>
    /\ collection \in {NoCollection}
          \cup {QdrantCreate(NoCollection, e).collection : e \in EmbeddingSizes}
    /\ handled = <<>>
    /\ total_chunks = 0
    /\ setupLog = <<>>

\* One call of create_collection_if_not_exists by an embedder whose model
\* has embedding size e.
SetupCall(e) ==
    LET r == create_collection_if_not_exists(collection, e)
    IN /\ collection' = r.collection
       /\ setupLog' = Append(setupLog, [error |-> r.error, created |-> r.created,
                                        config |-> r.collection])

\* create_collection_if_not_exists called on its own.
SetupCollection(e) ==
    /\ ipc # "loop"
    /\ Len(setupLog) < MaxSetupCalls
    /\ SetupCall(e)
    /\ UNCHANGED <<ipc, pdf_files, idx, store, handled, total_chunks>>

\* main() up to the loop: the collection is set up, the folder is listed
\* (n files), an empty folder returns at once.
MainStart(e, n) ==
    /\ ipc = "idle"
    /\ Len(setupLog) < MaxSetupCalls
    /\ SetupCall(e)
    /\ IF setupLog'[Len(setupLog')].error
       THEN /\ ipc' = "aborted"
            /\ pdf_files' = <<>>
       ELSE /\ pdf_files' = [i \in 1..n |-> FileName(i)]
            /\ ipc' = IF n = 0 THEN "done" ELSE "loop"
    /\ idx' = 0
    /\ total_chunks' = 0
    /\ handled' = <<>>
    /\ UNCHANGED store

\* One iteration of "for pdf_file in pdf_files"; after the last file the
\* loop ends and main logs its summary.
ProcessFile(conv, response) ==
    /\ ipc = "loop"
    /\ idx < Len(pdf_files)
    /\ LET file == pdf_files[idx + 1]
           r == process_pdf_file(file, conv, response)
           outcome == IF r.raised THEN "raised"
                      ELSE IF r.logged THEN "logged"
                      ELSE IF r.chunks = <<>> THEN "empty" ELSE "stored"
       IN /\ handled' = Append(handled, [file |-> file, outcome |-> outcome,
                                         complete |-> IsComplete(response),
                                         written |-> Len(r.chunks)])
          /\ idx' = idx + 1
          /\ IF r.raised
             THEN /\ ipc' = "aborted"
                  /\ UNCHANGED <<store, total_chunks>>
             ELSE /\ ipc' = IF idx + 1 = Len(pdf_files) THEN "done" ELSE "loop"
                  /\ IF r.chunks = <<>>
                     THEN UNCHANGED <<store, total_chunks>>
                     ELSE /\ store' = store \o r.chunks
                          /\ total_chunks' = total_chunks + Len(r.chunks)
    /\ UNCHANGED <<pdf_files, collection, setupLog>>

\* ====================================================================
\* Specifications
\* ====================================================================
Init == QInit /\ XIdle /\ IInit /\ ipc = "idle" /\ collection = NoCollection

Next ==
    \/ (\E q \in Questions : StartRequest(q)) /\ UNCHANGED <<xvars, ivars>>
    \/ RetrieveNode /\ UNCHANGED <<xvars, ivars>>
    \/ RetrieveFail /\ UNCHANGED <<xvars, ivars>>
    \/ GenerateNode /\ UNCHANGED <<xvars, ivars>>
    \/ (\E t \in Tokens : NextToken(t)) /\ UNCHANGED <<xvars, ivars>>
    \/ StreamEnd /\ UNCHANGED <<xvars, ivars>>
    \/ StreamFail /\ UNCHANGED <<xvars, ivars>>

Spec == Init /\ [][Next]_vars

QIdle == QInit /\ emitsEnd = FALSE

InitExtract == QIdle /\ XInit /\ IInit /\ collection = NoCollection
NextExtract == ApplyProcess /\ UNCHANGED <<qvars, ivars>>
SpecExtract == InitExtract /\ [][NextExtract]_vars

InitIngest == QIdle /\ XIdle /\ IInit
NextIngest ==
    \/ (\E e \in EmbeddingSizes : SetupCollection(e)) /\ UNCHANGED <<qvars, xvars>>
    \/ (\E e \in EmbeddingSizes, n \in 0..MaxFiles : MainStart(e, n))
          /\ UNCHANGED <<qvars, xvars>>
    \/ (\E conv \in {"ok", "error"}, r \in BatchResponses : ProcessFile(conv, r))
          /\ UNCHANGED <<qvars, xvars>>
SpecIngest == InitIngest /\ [][NextIngest]_vars


\* ====================================================================
\* Properties
\* ====================================================================
EventTypes(s) == [i \in 1..Len(s) |-> s[i].type]
TokenTypes(n) == [i \in 1..n |-> "token"]
LastEvent == out[Len(out)]
RetrievedDocs == DictGet(state, "docs", <<>>)
\* The events after the first carry the produced tokens, in order.
TokensInOrder ==
    \A i \in 1..Len(produced) :
        /\ i + 1 <= Len(out)
        /\ out[i + 1].type = "token"
        /\ out[i + 1].data = produced[i]

\* C1: when the answer stream ends without failure after N tokens, the events
\* are one details event, the N tokens in generation order, one sources
\* event; a sources event is only ever the last event and only there once
\* the answer stream is exhausted.
C1_StreamingOrder ==
    /\ (pc = "done" /\ stream = "exhausted") =>
          /\ EventTypes(out) = <<"details">> \o TokenTypes(Len(produced)) \o <<"sources">>
          /\ TokensInOrder
    /\ \A i \in 1..Len(out) :
          out[i].type = "sources" => (i = Len(out) /\ stream = "exhausted")
C1_Witness ==
    /\ pc = "done"
    /\ stream = "exhausted"
    /\ Len(produced) = 2
    /\ produced[1] # produced[2]

\* C2: the sources event carries one entry per chunk of the docs the
\* retrieve step set, in rank order, each with the chunk's six fields.
C2_SourcesFromDocs ==
    pc = "done" =>
        /\ LastEvent.type = "sources"
        /\ LastEvent.data = [i \in 1..Len(RetrievedDocs) |-> SourceEntry(RetrievedDocs[i])]

\* C7: when retrieval returns no chunk, the edge still leads to generate, and
\* a finished request has run generate once, exhausted the answer stream and
\* ended with a sources event whose data is the empty list.
C7_EmptyRetrieval ==
    /\ (pc = "details" /\ RetrievedDocs = <<>>) => node = "generate"
    /\ (pc = "done" /\ RetrievedDocs = <<>>) =>
          /\ generateRuns = 1
          /\ stream = "exhausted"
          /\ LastEvent.type = "sources"
          /\ LastEvent.data = <<>>
C7_Witness ==
    /\ pc = "done"
    /\ "docs" \in DOMAIN state
    /\ state["docs"] = <<>>
    /\ Len(produced) > 0

\* C8: the workflow is Start -> Retrieve -> Generate -> Done: retrieve and
\* generate run at most once each, generate only after retrieve, the edge
\* out of retrieve leads to generate whatever was retrieved, and a finished
\* request has run each step exactly once.
C8_LinearWorkflow ==
    /\ retrieveRuns <= 1
    /\ generateRuns <= retrieveRuns
    /\ pc = "started" => (node = "retrieve" /\ retrieveRuns = 0)
    /\ pc = "details" => (node = "generate" /\ retrieveRuns = 1 /\ generateRuns = 0)
    /\ pc = "tokens" => (node = END /\ generateRuns = 1)
    /\ pc = "done" => (node = END /\ retrieveRuns = 1 /\ generateRuns = 1)
C8_Witness ==
    /\ pc = "done"
    /\ retrieveRuns = 1
    /\ generateRuns = 1
    /\ Len(RetrievedDocs) = DefaultK

\* C10: when the model call fails after j tokens, the caller has received
\* the details event and exactly those j tokens, the request is failed, no
\* sources event was emitted and generate has run once only.
C10_FailurePropagates ==
    stream = "failed" =>
        /\ pc = "failed"
        /\ EventTypes(out) = <<"details">> \o TokenTypes(Len(produced))
        /\ TokensInOrder
        /\ generateRuns = 1
C10_Witness ==
    /\ stream = "failed"
    /\ pc = "failed"
    /\ Len(produced) = 2

\* --- process_pdf_file
Proposed == DictItems(DictGet(xin.response.data, "chunks", NoChunks).pairs)
Produced == xout.result.chunks
ChunkIndexes(cs) == [i \in 1..Len(cs) |-> cs[i].metadata.chunk_index]
\* The positions (from 0) among the first three proposed chunks whose text
\* is not empty.
Eligible == {i \in 0..(Min(Len(Proposed), ChunkCap) - 1) : Proposed[i + 1][2] # <<>>}
YearCoerces ==
    PyInt(DictGet(xin.response.data, "metadados", EmptyDict), "data_status_ano").ok
ProposesMoreThanCap == xout.done /\ xin.response.valid /\ Len(Proposed) > ChunkCap

\* C4 (as stated): more than 3 proposed chunks give exactly 3 records, with
\* chunk_index 0, 1 and 2.
C4_ExactlyThree ==
    ProposesMoreThanCap => ChunkIndexes(Produced) = <<0, 1, 2>>

\* C4 (amended): more than 3 proposed chunks give at most 3 records: none
\* when the year cannot be coerced and one of the first three texts is not
\* empty, otherwise one record for each of the first three proposed chunks
\* whose text is not empty, carrying that chunk's position and key, in
\* extraction order; exactly 3 records with chunk_index 0, 1, 2 exactly when
\* the first three texts are all non-empty and the year coerces.
C4_ChunkCap ==
    ProposesMoreThanCap =>
        /\ Len(Produced) <= ChunkCap
        /\ IF Eligible # {} /\ ~YearCoerces
           THEN Produced = <<>>
           ELSE /\ {Produced[i].metadata.chunk_index : i \in 1..Len(Produced)} = Eligible
                /\ Len(Produced) = Cardinality(Eligible)
                /\ \A i \in 1..Len(Produced) :
                      /\ Produced[i].metadata.chunk_type
                            = Proposed[Produced[i].metadata.chunk_index + 1][1]
                      /\ \A j \in 1..(i - 1) :
                            Produced[j].metadata.chunk_index < Produced[i].metadata.chunk_index
        /\ (ChunkIndexes(Produced) = <<0, 1, 2>>) <=> (Eligible = {0, 1, 2} /\ YearCoerces)
C4_Witness ==
    /\ ProposesMoreThanCap
    /\ ChunkIndexes(Produced) = <<0, 2>>

\* C5: the records of one document number at most 3, every chunk_index is
\* in 0..2, chunk_index grows along the records as the chunks' keys follow
\* each other in the extraction output, and no two records share a
\* chunk_type or a chunk_index.
FirstPosition(key) ==
    LET pairs == DictGet(xin.response.data, "chunks", NoChunks).pairs
    IN CHOOSE i \in 1..Len(pairs) :
          pairs[i][1] = key /\ \A j \in 1..(i - 1) : pairs[j][1] # key
C5_ChunkInvariant ==
    xout.done =>
        /\ Len(Produced) <= 3
        /\ \A i \in 1..Len(Produced) : Produced[i].metadata.chunk_index \in 0..2
        /\ \A i \in 1..Len(Produced) : \A j \in (i + 1)..Len(Produced) :
              /\ Produced[i].metadata.chunk_index < Produced[j].metadata.chunk_index
              /\ Produced[i].metadata.chunk_type # Produced[j].metadata.chunk_type
              /\ FirstPosition(Produced[i].metadata.chunk_type)
                    < FirstPosition(Produced[j].metadata.chunk_type)
C5_Witness ==
    /\ xout.done
    /\ Len(Produced) = 3
    /\ Len(DictGet(xin.response.data, "chunks", NoChunks).pairs) > Len(Proposed)

\* --- main
\* C3: no failure in one file aborts the batch: main never ends by an
\* exception of process_pdf_file, and a finished run has taken every file.
C3_BatchNeverAborts ==
    /\ ipc # "aborted"
    /\ \A i \in 1..Len(handled) : handled[i].outcome # "raised"
    /\ ipc = "done" => Len(handled) = Len(pdf_files)

\* C6: a document whose extraction output is no valid JSON or lacks
\* "metadados", "chunks" or a metadata field has no chunk written, and no
\* stored chunk has a metadata field without a value.
C6_IncompleteNeverStored ==
    /\ \A i \in 1..Len(handled) : ~handled[i].complete => handled[i].written = 0
    /\ \A i \in 1..Len(store) :
          /\ store[i].metadata.num_sumula # None
          /\ store[i].metadata.data_status # None
          /\ store[i].metadata.status_atual # None

\* C9: of the calls of create_collection_if_not_exists in sequence, none
\* errors, at most one issues the create call, and the configuration after
\* every later call is the one after the first.
C9_IdempotentSetup ==
    /\ \A i \in 1..Len(setupLog) :
          /\ ~setupLog[i].error
          /\ setupLog[i].config = setupLog[1].config
          /\ setupLog[i].config.exists
    /\ Cardinality({i \in 1..Len(setupLog) : setupLog[i].created}) <= 1
C9_Witness ==
    /\ Len(setupLog) >= 2
    /\ setupLog[1].created
    /\ ~setupLog[2].created


\* --- run_streaming_rag, continued
Retrieved == pc \in {"details", "tokens", "done"} \/ stream = "failed"

\* C11: with no k given by the caller, the retrieve step of the compiled
\* workflow asks the vector search for the top 10 chunks and returns at
\* most 10.
C11_DefaultKTen ==
    Retrieved =>
        /\ search_k = RetrieveDefaultK
        /\ Len(RetrievedDocs) <= RetrieveDefaultK

\* C12: the client, embedding and model handles are constructed once for the
\* process: over any sequence of requests there is at most one construction.
C12_HandlesConstructedOnce == handles <= 1

\* C13: within a request the question never changes; docs, generated_query
\* and generated_filter are written once, by the retrieve step only; answer
\* is written once, by the generate step only; the generate step leaves the
\* other fields as they are.
RetrieveFields == {"docs", "generated_query", "generated_filter"}
C13_StateFrame ==
    [][requests' = requests =>
         /\ state'["question"] = state["question"]
         /\ \A f \in (RetrieveFields \cup {"answer"}) \cap DOMAIN state :
               f \in DOMAIN state' /\ state'[f] = state[f]
         /\ \A f \in RetrieveFields :
               (f \in DOMAIN state' /\ f \notin DOMAIN state) =>
                   (retrieveRuns' = retrieveRuns + 1 /\ generateRuns' = generateRuns)
         /\ ("answer" \in DOMAIN state' /\ "answer" \notin DOMAIN state) =>
               (generateRuns' = generateRuns + 1 /\ retrieveRuns' = retrieveRuns)
         /\ retrieveRuns' = retrieveRuns + 1 =>
               (pc' = "failed" \/ RetrieveFields \subseteq DOMAIN state')
         /\ generateRuns' = generateRuns + 1 => "answer" \in DOMAIN state']_vars
C13_Witness ==
    /\ pc = "done"
    /\ (RetrieveFields \cup {"answer", "question"}) \subseteq DOMAIN state
    /\ Len(state["docs"]) > 1

\* C14: tokens are delivered as they are pulled: every token asked of the
\* model has been yielded before the next is asked for, in order; the details
\* event is out before the first token is asked for; and neither events nor
\* tokens run ahead of the caller's pulls.
TokenEventsOut == {i \in 1..Len(out) : out[i].type = "token"}
C14_PullBased ==
    /\ Cardinality(TokenEventsOut) = Len(produced)
    /\ TokensInOrder
    /\ (stream # "unset" \/ produced # <<>>) => (Len(out) >= 1 /\ out[1].type = "details")
    /\ Len(out) <= pulls
    /\ produced # <<>> => Len(produced) + 1 <= pulls
C14_Witness ==
    /\ pc = "tokens"
    /\ Len(produced) = 3
    /\ pulls = 4
    /\ Len(out) = 4

\* C15: the query and the filter of the details event are those of the
\* structured query the search that returned docs was run with.
C15_DetailsMatchSearch ==
    (Retrieved /\ Len(out) >= 1) =>
        /\ out[1].data.query = searched.query
        /\ out[1].data.filter = FormatFilterForDisplay(searched.filter)


====
